---------------------------- MODULE Spec2Model ----------------------------
(***************************************************************************)
(* YouTubePulse: the analysis pipeline of POST /api/analyze.               *)
(*                                                                         *)
(*   YouTubeService.gatherChannelIntelligence  (src/unnamed/part_000)      *)
(*   AIService.analyze* / generateIntelligence (src/unnamed/part_000)      *)
(*   calculateEnhancedMetrics, getVideoBreakdown, the handler              *)
(*                                              (src/server.js)            *)
(*                                                                         *)
(* Text is modelled at two grains.  Titles and descriptions are sequences  *)
(* of one-character strings, so that toLowerCase, includes and split act   *)
(* on characters.  A completion of the text-generation capability is a     *)
(* sequence of lexical tokens (punctuation, string literals, numbers,      *)
(* prose words); string literals hold no bracket characters.               *)
(***************************************************************************)
EXTENDS Integers, Sequences, FiniteSets, TLC

\* ------------------------------------------------------------------ bounds
\* Longest video listing the provider returns in the model (the code asks
\* for at most 10, part_000:42).
MaxVideos == 2
\* Longest video list handed to the analyzers when they are exercised on
\* their own.
MaxListed == 2
\* Largest number of comments handed to analyzeSentiment on its own.
MaxComments == 6
\* Longest video list handed to the metrics functions on their own.
MaxMetricVideos == 3

\* ------------------------------------------------------- program constants
MinComments == 5
MinPadded == 3
MaxFeatures == 5
MinFeatureWordLen == 5
MinKeywordLen == 4
MaxKeywords == 12
HighCount == 5
MediumCount == 2

\* ------------------------------------------------------------- characters
WhiteSpace == {" "}

LowerOf ==
  ("A" :> "a") @@ ("B" :> "b") @@ ("C" :> "c") @@ ("D" :> "d") @@ ("E" :> "e") @@
  ("F" :> "f") @@ ("G" :> "g") @@ ("H" :> "h") @@ ("I" :> "i") @@ ("J" :> "j") @@
  ("K" :> "k") @@ ("L" :> "l") @@ ("M" :> "m") @@ ("N" :> "n") @@ ("O" :> "o") @@
  ("P" :> "p") @@ ("Q" :> "q") @@ ("R" :> "r") @@ ("S" :> "s") @@ ("T" :> "t") @@
  ("U" :> "u") @@ ("V" :> "v") @@ ("W" :> "w") @@ ("X" :> "x") @@ ("Y" :> "y") @@
  ("Z" :> "z")

\* String.prototype.toLowerCase
toLowerCase(s) ==
  [i \in 1..Len(s) |-> IF s[i] \in DOMAIN LowerOf THEN LowerOf[s[i]] ELSE s[i]]

\* String.prototype.includes
includes(s, needle) ==
  \E i \in 0..(Len(s) - Len(needle)) :
     \A k \in 1..Len(needle) : s[i + k] = needle[k]

\* String.prototype.split(/\s+/): the pieces between runs of white space, in
\* order; a leading or trailing run leaves an empty piece at that end, and
\* the empty string gives one empty piece.
split(s) ==
  LET isSpace(i) == s[i] \in WhiteSpace
      starts == {i \in 1..Len(s) : ~isSpace(i) /\ (i = 1 \/ isSpace(i - 1))}
      endOf(i) == CHOOSE j \in i..Len(s) :
                    /\ \A k \in i..j : ~isSpace(k)
                    /\ (j = Len(s) \/ isSpace(j + 1))
      nth(k) == CHOOSE i \in starts : Cardinality({j \in starts : j < i}) = k - 1
      words == [k \in 1..Cardinality(starts) |-> SubSeq(s, nth(k), endOf(nth(k)))]
      leading == IF Len(s) = 0 \/ isSpace(1) THEN <<<<>>>> ELSE <<>>
      trailing == IF Len(s) > 0 /\ isSpace(Len(s)) THEN <<<<>>>> ELSE <<>>
  IN leading \o words \o trailing

\* Array.prototype.join(' ') over character strings
RECURSIVE joinSpace(_)
joinSpace(parts) ==
  IF Len(parts) = 0 THEN <<>>
  ELSE IF Len(parts) = 1 THEN parts[1]
  ELSE parts[1] \o <<" ">> \o joinSpace(Tail(parts))

\* Array.prototype.flatMap / concatenation of a list of lists
RECURSIVE flat(_)
flat(lists) == IF Len(lists) = 0 THEN <<>> ELSE lists[1] \o flat(Tail(lists))

\* Array.prototype.slice(0, n)
sliceTo(s, n) == SubSeq(s, 1, IF Len(s) < n THEN Len(s) ELSE n)

\* ------------------------------------------------------------ JSON values
JNull == [type |-> "null"]
Undefined == [type |-> "undefined"]
JStr(s) == [type |-> "string", str |-> s]
JText(cs) == [type |-> "string", chars |-> cs]
JNum(n) == [type |-> "number", num |-> n]
JArr(xs) == [type |-> "array", items |-> xs]
JObj(ms) == [type |-> "object", members |-> ms]
Member(k, v) == [key |-> k, value |-> v]

\* ----------------------------------------------------- completion tokens
JsonStrings ==
  {"complaints", "text", "frequency", "mostRequestedFeature", "high", "low",
   "laggy", "pricey", "buggy", "noisy", "dark mode", "ab",
   "feature", "category", "confidence", "New", "search",
   "primaryHook", "secondaryHooks", "strategy", "FOMO", "Urgency", "scarcity",
   "length"}
NumVal == ("1" :> 1) @@ ("7" :> 7)
\* the string literals of fewer than 3 characters
ShortStrings == {"ab"}

\* JSON.parse over tokens: recursive descent; the whole input must be one value.
ParseFail == [ok |-> FALSE]
ParseOk(v, next) == [ok |-> TRUE, value |-> v, next |-> next]

RECURSIVE ParseValue(_, _), ParseMembers(_, _, _), ParseItems(_, _, _)
ParseValue(toks, i) ==
  IF i > Len(toks) THEN ParseFail
  ELSE IF toks[i] = "{" THEN ParseMembers(toks, i + 1, <<>>)
  ELSE IF toks[i] = "[" THEN ParseItems(toks, i + 1, <<>>)
  ELSE IF toks[i] \in JsonStrings THEN ParseOk(JStr(toks[i]), i + 1)
  ELSE IF toks[i] \in DOMAIN NumVal THEN ParseOk(JNum(NumVal[toks[i]]), i + 1)
  ELSE IF toks[i] = "null" THEN ParseOk(JNull, i + 1)
  ELSE ParseFail

ParseMembers(toks, i, acc) ==
  IF i > Len(toks) THEN ParseFail
  ELSE IF toks[i] = "}" /\ Len(acc) = 0 THEN ParseOk(JObj(acc), i + 1)
  ELSE IF toks[i] \in JsonStrings /\ i + 1 <= Len(toks) /\ toks[i + 1] = ":"
       THEN LET v == ParseValue(toks, i + 2) IN
            IF ~v.ok THEN ParseFail
            ELSE LET acc2 == Append(acc, Member(toks[i], v.value)) IN
                 IF v.next > Len(toks) THEN ParseFail
                 ELSE IF toks[v.next] = "}" THEN ParseOk(JObj(acc2), v.next + 1)
                 ELSE IF toks[v.next] = "," THEN ParseMembers(toks, v.next + 1, acc2)
                 ELSE ParseFail
       ELSE ParseFail

ParseItems(toks, i, acc) ==
  IF i > Len(toks) THEN ParseFail
  ELSE IF toks[i] = "]" /\ Len(acc) = 0 THEN ParseOk(JArr(acc), i + 1)
  ELSE LET v == ParseValue(toks, i) IN
       IF ~v.ok THEN ParseFail
       ELSE LET acc2 == Append(acc, v.value) IN
            IF v.next > Len(toks) THEN ParseFail
            ELSE IF toks[v.next] = "]" THEN ParseOk(JArr(acc2), v.next + 1)
            ELSE IF toks[v.next] = "," THEN ParseItems(toks, v.next + 1, acc2)
            ELSE ParseFail

JSONparse(toks) ==
  LET r == ParseValue(toks, 1) IN
  IF r.ok /\ r.next = Len(toks) + 1 THEN [ok |-> TRUE, value |-> r.value]
  ELSE [ok |-> FALSE]

\* response.match(/\{[\s\S]*?\}/) and response.match(/\[[\s\S]*?\]/): the
\* leftmost opening bracket that has a closing bracket after it, up to the
\* FIRST closing bracket after it (the quantifier is lazy).
matchLazy(toks, open, close) ==
  LET starts == {i \in 1..Len(toks) :
                   toks[i] = open /\ \E j \in (i + 1)..Len(toks) : toks[j] = close}
  IN IF starts = {} THEN [found |-> FALSE]
     ELSE LET i == CHOOSE x \in starts : \A y \in starts : x <= y
              j == CHOOSE x \in (i + 1)..Len(toks) :
                     /\ toks[x] = close
                     /\ \A y \in (i + 1)..(x - 1) : toks[y] # close
          IN [found |-> TRUE, text |-> SubSeq(toks, i, j)]

\* property read obj.key on a parsed value (the last duplicate key wins)
Get(v, k) ==
  IF v.type # "object" THEN Undefined
  ELSE LET idx == {i \in 1..Len(v.members) : v.members[i].key = k} IN
       IF idx = {} THEN Undefined
       ELSE v.members[CHOOSE i \in idx : \A j \in idx : j <= i].value

\* property write obj.key = x on a parsed object that has the key
Put(v, k, x) ==
  LET idx == {i \in 1..Len(v.members) : v.members[i].key = k}
      last == CHOOSE i \in idx : \A j \in idx : j <= i
  IN JObj([v.members EXCEPT ![last] = Member(k, x)])

\* ------------------------------------------------- text-generation calls
\* What one callOllama(prompt) does: the request fails (callOllama throws), or
\* the reply carries no response field, or it carries completion text.
Throws == [kind |-> "throw"]
NoResponseField == [kind |-> "undefined"]
Completion(toks) == [kind |-> "text", text |-> toks]

\* the body of a try block: a value it returns, a fall out of its end, or an
\* exception its catch clause absorbs
Returned(v) == [how |-> "return", value |-> v]
FellThrough == [how |-> "fallthrough"]
Caught(msg) == [how |-> "caught", error |-> msg]

\* what an analyzer hands back: its result and the capability calls it made
Analysis(v, n) == [result |-> v, calls |-> n]

\* ------------------------------------------------------ feature extraction
firstSeen(words) ==
  SelectSeq([i \in 1..Len(words) |-> [w |-> words[i], i |-> i]],
            LAMBDA e : \A j \in 1..(e.i - 1) : words[j] # e.w)

Detected(k) ==
  JObj(<<Member("feature", JText(k)), Member("category", JStr("Detected")),
         Member("confidence", JStr("medium"))>>)

extractFeaturesFromTitles(videoData) ==
  LET words == flat([i \in 1..Len(videoData) |-> split(videoData[i].title)])
      long == SelectSeq(words, LAMBDA w : Len(w) > MinFeatureWordLen)
      keywords == firstSeen(long)
      kept == sliceTo(keywords, MaxFeatures)
  IN JArr([i \in 1..Len(kept) |-> Detected(kept[i].w)])

featuresTry(outcome) ==
  IF outcome.kind = "throw" THEN Caught("Ollama error")
  ELSE IF outcome.kind = "undefined" THEN Caught("TypeError")
  ELSE LET jsonMatch == matchLazy(outcome.text, "[", "]") IN
       IF ~jsonMatch.found THEN FellThrough
       ELSE LET parsed == JSONparse(jsonMatch.text) IN
            IF parsed.ok THEN Returned(parsed.value) ELSE Caught("SyntaxError")

analyzeFeatures(transcripts, videoData, outcome) ==
  LET combinedTranscripts ==
        SelectSeq(transcripts, LAMBDA t : t # JNull /\ t # JStr(""))
  IN IF Len(combinedTranscripts) = 0
     THEN Analysis(extractFeaturesFromTitles(videoData), 0)
     ELSE LET t == featuresTry(outcome) IN
          IF t.how = "return" THEN Analysis(t.value, 1)
          ELSE Analysis(extractFeaturesFromTitles(videoData), 1)

\* -------------------------------------------------- sentiment-gap extraction
Complaint(text, frequency) ==
  JObj(<<Member("text", JStr(text)), Member("frequency", JStr(frequency))>>)

InsufficientData ==
  JObj(<<Member("complaints",
                JArr(<<Complaint("Limited engagement data", "medium"),
                       Complaint("Low comment activity", "low"),
                       Complaint("Check community settings", "low")>>)),
         Member("mostRequestedFeature", JStr("More data needed"))>>)

PositiveSentiment ==
  JObj(<<Member("complaints",
                JArr(<<Complaint("Positive audience response", "high"),
                       Complaint("Strong engagement", "medium"),
                       Complaint("Active community", "low")>>)),
         Member("mostRequestedFeature", JStr("Similar content"))>>)

Filler == Complaint("Positive sentiment", "low")

\* while (data.complaints.length < 3) data.complaints.push(filler)
padComplaints(items) ==
  IF Len(items) >= MinPadded THEN items
  ELSE items \o [i \in 1..(MinPadded - Len(items)) |-> Filler]

sentimentTry(outcome) ==
  IF outcome.kind = "throw" THEN Caught("Ollama error")
  ELSE IF outcome.kind = "undefined" THEN Caught("TypeError")
  ELSE LET jsonMatch == matchLazy(outcome.text, "{", "}") IN
       IF ~jsonMatch.found THEN FellThrough
       ELSE LET parsed == JSONparse(jsonMatch.text) IN
            IF ~parsed.ok THEN Caught("SyntaxError")
            ELSE LET data == parsed.value
                     c == Get(data, "complaints")
                 IN IF c.type \in {"undefined", "null"} THEN Caught("TypeError")
                    ELSE IF c.type = "array"
                         THEN Returned(Put(data, "complaints",
                                           JArr(padComplaints(c.items))))
                    ELSE IF c.type = "string"
                         THEN IF c.str \in ShortStrings THEN Caught("TypeError")
                              ELSE Returned(data)
                    ELSE IF c.type = "object"
                         THEN LET l == Get(c, "length") IN
                              IF l.type = "number" /\ l.num < MinPadded
                              THEN Caught("TypeError") ELSE Returned(data)
                    ELSE Returned(data)

\* the guard of the other analyzer variant: only an empty list is too little
analyzeSentiment_emptyOnly(comments, outcome) ==
  IF Len(comments) = 0 THEN Analysis(InsufficientData, 0)
  ELSE LET t == sentimentTry(outcome) IN
       IF t.how = "return" THEN Analysis(t.value, 1)
       ELSE Analysis(PositiveSentiment, 1)

analyzeSentiment(comments, outcome) ==
  IF Len(comments) < MinComments THEN Analysis(InsufficientData, 0)
  ELSE LET t == sentimentTry(outcome) IN
       IF t.how = "return" THEN Analysis(t.value, 1)
       ELSE Analysis(PositiveSentiment, 1)

\* ------------------------------------------------------------ hook extraction
NeedleChallenge == <<"c","h","a","l","l","e","n","g","e">>
NeedleDollar == <<"$">>

Spectacle ==
  JObj(<<Member("primaryHook", JStr("Entertainment & Spectacle")),
         Member("secondaryHooks", JArr(<<JStr("FOMO"), JStr("Curiosity")>>)),
         Member("strategy", JStr("Viral content with high production value"))>>)

GenericHook ==
  JObj(<<Member("primaryHook", JStr("Viewer Entertainment")),
         Member("secondaryHooks", JArr(<<JStr("Engagement")>>)),
         Member("strategy", JStr("Audience retention focus"))>>)

hooksTry(outcome) ==
  IF outcome.kind = "throw" THEN Caught("Ollama error")
  ELSE IF outcome.kind = "undefined" THEN Caught("TypeError")
  ELSE LET jsonMatch == matchLazy(outcome.text, "{", "}") IN
       IF ~jsonMatch.found THEN FellThrough
       ELSE LET parsed == JSONparse(jsonMatch.text) IN
            IF parsed.ok THEN Returned(parsed.value) ELSE Caught("SyntaxError")

\* the titles searched as they are, without toLowerCase
hookShortCircuit_caseSensitive(videoData) ==
  \E i \in 1..Len(videoData) :
     \/ includes(videoData[i].title, NeedleChallenge)
     \/ includes(videoData[i].title, NeedleDollar)

hookShortCircuit(videoData) ==
  LET titles == [i \in 1..Len(videoData) |-> toLowerCase(videoData[i].title)] IN
  \E i \in 1..Len(titles) :
     includes(titles[i], NeedleChallenge) \/ includes(titles[i], NeedleDollar)

analyzeHooks(videoData, outcome) ==
  IF hookShortCircuit(videoData) THEN Analysis(Spectacle, 0)
  ELSE LET t == hooksTry(outcome) IN
       IF t.how = "return" THEN Analysis(t.value, 1)
       ELSE Analysis(GenericHook, 1)

\* ---------------------------------------------------------- keyword extraction
StopWords ==
  {<<"v","i","d","e","o">>, <<"w","a","t","c","h">>,
   <<"s","u","b","s","c","r","i","b","e">>}

\* Array.prototype.sort((a, b) => key(b) - key(a)): descending by key, and
\* stable (elements with equal keys keep their order).
\* an insertion that goes in front of its equals
RECURSIVE insertDesc_beforeEquals(_, _)
insertDesc_beforeEquals(sorted, x) ==
  IF Len(sorted) = 0 THEN <<x>>
  ELSE IF sorted[1].k > x.k
       THEN <<sorted[1]>> \o insertDesc_beforeEquals(Tail(sorted), x)
       ELSE <<x>> \o sorted

RECURSIVE insertDesc(_, _)
insertDesc(sorted, x) ==
  IF Len(sorted) = 0 THEN <<x>>
  ELSE IF sorted[1].k >= x.k
       THEN <<sorted[1]>> \o insertDesc(Tail(sorted), x)
       ELSE <<x>> \o sorted

RECURSIVE sortDescFrom(_, _, _)
sortDescFrom(xs, i, acc) ==
  IF i > Len(xs) THEN acc
  ELSE sortDescFrom(xs, i + 1, insertDesc(acc, xs[i]))

sortDesc(xs, key(_)) ==
  LET keyed == [i \in 1..Len(xs) |-> [k |-> key(xs[i]), v |-> xs[i]]]
      sorted == sortDescFrom(keyed, 1, <<>>)
  IN [i \in 1..Len(sorted) |-> sorted[i].v]

importance(count) ==
  IF count > HighCount THEN "high"
  ELSE IF count > MediumCount THEN "medium" ELSE "low"

extractKeywords(transcripts, videoData) ==
  LET text == joinSpace([i \in 1..Len(videoData) |->
                videoData[i].title \o <<" ">> \o videoData[i].description])
      words == split(toLowerCase(text))
      counted == SelectSeq(words,
                   LAMBDA w : Len(w) > MinKeywordLen /\ w \notin StopWords)
      keys == firstSeen(counted)
      wordCount == [i \in 1..Len(keys) |->
                     [word |-> keys[i].w,
                      count |-> Cardinality({j \in 1..Len(counted) :
                                               counted[j] = keys[i].w})]]
      topWords == sliceTo(sortDesc(wordCount, LAMBDA e : e.count), MaxKeywords)
  IN IF Len(topWords) > 0
     THEN JArr([i \in 1..Len(topWords) |->
            JObj(<<Member("keyword", JText(topWords[i].word)),
                   Member("importance", JStr(importance(topWords[i].count)))>>)])
     ELSE JArr(<<JObj(<<Member("keyword", JStr("content")),
                        Member("importance", JStr("medium"))>>)>>)

\* ------------------------------------------------------------------ numbers
\* A counter of the provider is a numeric string or is absent (Undefined).
NumStr(n) == [type |-> "string", val |-> n]
\* A JavaScript number that a division produced: a value or NaN.  Rates are
\* held in hundredths, trend and frequency in tenths (their toFixed digits).
Num(v) == [nan |-> FALSE, v |-> v]
NaN == [nan |-> TRUE]

\* parseInt(x || 0)
parseIntOr0(x) == IF x = Undefined THEN 0 ELSE x.val
\* parseInt(x)
parseInt(x) == IF x = Undefined THEN NaN ELSE Num(x.val)

\* a / b for a >= 0, b > 0, rounded to the nearest integer, halves upwards
\* (Math.round, and toFixed on a non-negative value)
roundDiv(a, b) == (2 * a + b) \div (2 * b)
\* toFixed on a value of either sign: the sign is set aside, then rounded
roundDivSigned(a, b) == IF a >= 0 THEN roundDiv(a, b) ELSE 0 - roundDiv(0 - a, b)

RECURSIVE sumOf(_)
sumOf(ns) == IF Len(ns) = 0 THEN 0 ELSE ns[1] + sumOf(Tail(ns))

\* reduce((sum, v) => sum + parseInt(v.stats[f] || 0), 0)
totalOf(videos, f) == sumOf([i \in 1..Len(videos) |-> parseIntOr0(videos[i].stats[f])])

\* Math.round(total / videos.length)
avgOf(total, n) == IF n = 0 THEN NaN ELSE Num(roundDiv(total, n))

\* total > 0 ? ((part / total) * 100).toFixed(2) : '0.00', in hundredths
rateOf(part, total) == IF total > 0 THEN Num(roundDiv(part * 10000, total)) ELSE Num(0)

RECURSIVE bestFrom(_, _, _)
bestFrom(videos, i, best) ==
  IF i > Len(videos) THEN best
  ELSE bestFrom(videos, i + 1,
         IF parseIntOr0(videos[i].stats.viewCount) > parseIntOr0(best.stats.viewCount)
         THEN videos[i] ELSE best)

\* videos.reduce(..., videos[0])
bestVideo(videos) == IF Len(videos) = 0 THEN Undefined ELSE bestFrom(videos, 1, videos[1])

\* (dates[0] - dates[dates.length - 1]) / 86400000 over the dates sorted
\* newest first; publishedAt is held in whole days
daysBetweenFirstAndLast(videos) ==
  IF Len(videos) = 0 THEN NaN
  ELSE LET dates == sortDesc([i \in 1..Len(videos) |-> videos[i].publishedAt],
                             LAMBDA d : d)
       IN Num(dates[1] - dates[Len(dates)])

\* in tenths of a video per week
uploadFrequency(videos) ==
  LET days == daysBetweenFirstAndLast(videos) IN
  IF ~days.nan /\ days.v > 0 THEN Num(roundDiv(Len(videos) * 70, days.v)) ELSE Num(0)

midpoint(videos) == Len(videos) \div 2
recentVideos(videos) == SubSeq(videos, 1, midpoint(videos))
olderVideos(videos) == SubSeq(videos, midpoint(videos) + 1, Len(videos))

\* reduce(...) / half.length as an exact fraction, NaN for 0 / 0
halfAvgViews(half) ==
  IF Len(half) = 0 THEN NaN
  ELSE [nan |-> FALSE, sum |-> totalOf(half, "viewCount"), len |-> Len(half)]

recentAvgViews(videos) == halfAvgViews(recentVideos(videos))
olderAvgViews(videos) == halfAvgViews(olderVideos(videos))

\* olderAvg > 0 ? (((recentAvg - olderAvg) / olderAvg) * 100).toFixed(1) : '0',
\* in tenths of a percent
viewsTrend(videos) ==
  LET r == recentAvgViews(videos)
      o == olderAvgViews(videos)
  IN IF ~o.nan /\ o.sum > 0
     THEN IF r.nan THEN NaN
          ELSE Num(roundDivSigned(1000 * (r.sum * o.len - o.sum * r.len),
                                  o.sum * r.len))
     ELSE Num(0)

hasText(v) == v.transcript # JNull /\ v.transcript # JStr("")

\* parseInt(((withTranscripts / videos.length) * 100).toFixed(0))
transcriptAvailability(videos) ==
  IF Len(videos) = 0 THEN NaN
  ELSE Num(roundDiv(100 * Len(SelectSeq(videos, hasText)), Len(videos)))

\* an exception, with the values the function had computed when it was thrown
Threw(name, locals) == [threw |-> TRUE, error |-> name, locals |-> locals]
Value(v) == [threw |-> FALSE, value |-> v]

calculateEnhancedMetrics(data) ==
  LET videos == data.videos
      n == Len(videos)
      totalViews == totalOf(videos, "viewCount")
      totalLikes == totalOf(videos, "likeCount")
      totalComments == totalOf(videos, "commentCount")
      best == bestVideo(videos)
  IN IF best = Undefined
     THEN Threw("TypeError",
                [avgViews |-> avgOf(totalViews, n),
                 avgLikes |-> avgOf(totalLikes, n),
                 avgComments |-> avgOf(totalComments, n),
                 viewsTrend |-> viewsTrend(videos),
                 transcriptAvailability |-> transcriptAvailability(videos)])
     ELSE Value([videosAnalyzed |-> n,
                 commentsProcessed |-> data.totalComments,
                 totalViews |-> totalViews,
                 avgViews |-> avgOf(totalViews, n),
                 viewsTrend |-> viewsTrend(videos),
                 totalLikes |-> totalLikes,
                 avgLikes |-> avgOf(totalLikes, n),
                 engagementRate |-> rateOf(totalLikes, totalViews),
                 totalComments |-> totalComments,
                 avgComments |-> avgOf(totalComments, n),
                 commentRate |-> rateOf(totalComments, totalViews),
                 bestPerformingVideo |-> [title |-> best.title,
                                          views |-> best.stats.viewCount,
                                          likes |-> best.stats.likeCount],
                 uploadFrequency |-> uploadFrequency(videos),
                 transcriptAvailability |-> transcriptAvailability(videos),
                 subscriberCount |-> data.channelStats.subscriberCount,
                 totalChannelViews |-> data.channelStats.totalViews,
                 totalChannelVideos |-> data.channelStats.totalVideos])

JBool(b) == [type |-> "boolean", b |-> b]

\* parseInt(views) > 0 ? ((parseInt(likes) / parseInt(views)) * 100).toFixed(2)
\*                     : '0.00', in hundredths
videoEngagementRate(stats) ==
  LET views == parseInt(stats.viewCount)
      likes == parseInt(stats.likeCount)
  IN IF ~views.nan /\ views.v > 0
     THEN IF likes.nan THEN NaN ELSE Num(roundDiv(likes.v * 10000, views.v))
     ELSE Num(0)

breakdownEntry(v) ==
  [title |-> v.title,
   publishedAt |-> v.publishedAt,
   views |-> parseIntOr0(v.stats.viewCount),
   likes |-> parseIntOr0(v.stats.likeCount),
   comments |-> parseIntOr0(v.stats.commentCount),
   engagementRate |-> videoEngagementRate(v.stats),
   hasTranscript |-> IF v.transcript = JNull \/ v.transcript = JStr("")
                     THEN v.transcript ELSE JBool(TRUE),
   commentCount |-> Len(v.comments)]

getVideoBreakdown(videos) ==
  sortDesc([i \in 1..Len(videos) |-> breakdownEntry(videos[i])], LAMBDA e : e.views)

\* ------------------------------------------------------- provider test data
TitleChallenge == <<"I","c","e"," ","C","H","A","L","L","E","N","G","E">>
TitleDollar == <<"W","i","n"," ","$","5">>
TitlePlain == <<"P","y","t","h","o","n"," ","b","a","s","i","c","s"," ","P","y","t","h","o","n">>
TitleLong ==
  <<"B","u","i","l","d","i","n","g"," ","r","e","a","c","t","i","v","e"," ",
    "s","e","r","v","e","r","s"," ","q","u","i","c","k","l","y"," ",
    "s","a","f","e","l","y"," ","t","o","n","i","g","h","t">>
TitleShort == <<"V","l","o","g">>
DescPlain ==
  <<"w","a","t","c","h"," ","p","y","t","h","o","n"," ","v","i","d","e","o"," ",
    "p","y","t","h","o","n">>
DescEmpty == <<>>

\* a comment of the provider (text only; the other fields are never read)
CommentItem(i) == [text |-> i]
CommentList(k) == [i \in 1..k |-> CommentItem(i)]

\* ------------------------------------------------------------ the completions
Good0 ==
  <<"{", "complaints", ":", "[", "]", ",", "mostRequestedFeature", ":", "dark mode", "}">>
Good1 ==
  <<"{", "complaints", ":", "[",
      "{", "text", ":", "laggy", ",", "frequency", ":", "high", "}",
    "]", ",", "mostRequestedFeature", ":", "dark mode", "}">>
Good2 ==
  <<"Sure", "{", "complaints", ":", "[",
      "{", "text", ":", "laggy", ",", "frequency", ":", "high", "}", ",",
      "{", "text", ":", "pricey", ",", "frequency", ":", "low", "}",
    "]", ",", "mostRequestedFeature", ":", "dark mode", "}", "Done">>
Good4 ==
  <<"{", "complaints", ":", "[",
      "{", "text", ":", "laggy", ",", "frequency", ":", "high", "}", ",",
      "{", "text", ":", "pricey", ",", "frequency", ":", "low", "}", ",",
      "{", "text", ":", "buggy", ",", "frequency", ":", "low", "}", ",",
      "{", "text", ":", "noisy", ",", "frequency", ":", "low", "}",
    "]", ",", "mostRequestedFeature", ":", "dark mode", "}">>
GoodFeatures ==
  <<"Here", "[", "{", "feature", ":", "search", ",", "category", ":", "New", ",",
    "confidence", ":", "high", "}", "]">>
GoodHooks ==
  <<"{", "primaryHook", ":", "FOMO", ",", "secondaryHooks", ":", "[", "Urgency", "]",
    ",", "strategy", ":", "scarcity", "}", "ok">>
Prose == <<"Sorry", "no", "idea">>
MalformedObject == <<"{", "complaints", "}">>
MalformedArray == <<"[", "feature", ":", "]">>
NumberArray == <<"[", "1", ",", "7", "]">>
WrongObject == <<"{", "length", ":", "7", "}">>
ComplaintsNumber == <<"{", "complaints", ":", "7", "}">>
ComplaintsShort == <<"{", "complaints", ":", "ab", "}">>
ComplaintsNull == <<"{", "complaints", ":", "null", "}">>

Completions ==
  {Good0, Good1, Good2, Good4, GoodFeatures, GoodHooks, Prose, MalformedObject,
   MalformedArray, NumberArray, WrongObject, ComplaintsNumber, ComplaintsShort,
   ComplaintsNull}

OllamaOutcomes == {Throws, NoResponseField} \cup {Completion(c) : c \in Completions}

\* ==================================================================== state
VARIABLES
  pc,            \* where the POST /api/analyze handler stands
  channelHandle, \* req.body.channelHandle
  channelId,     \* what getChannelId resolved
  channelStats,  \* what getChannelStats resolved
  listing,       \* what getLatestVideos resolved, newest first
  transcript,    \* per listed video: the promise of getTranscript
  comments,      \* per listed video: the promise of getTopComments
  stats,         \* per listed video: the promise of getVideoStats
  completed,     \* while the gather runs: the videos whose three fetches all
                 \* resolved, in completion order
  gathered,      \* how gatherChannelIntelligence settled
  youtubeData,   \* the dataset it returned
  features, sentiment, hooks, keywords,  \* the report fields, once produced
  ollamaCalls,   \* the callers of callOllama, in call order
  metrics,       \* how calculateEnhancedMetrics ended
  responses,     \* what the handler sent on res, in order
  arg, ret       \* input and result of a function exercised on its own

vars ==
  <<pc, channelHandle, channelId, channelStats, listing, transcript, comments,
    stats, gathered, youtubeData, features, sentiment, hooks, keywords,
    ollamaCalls, metrics, responses, completed, arg, ret>>

requestVars ==
  <<pc, channelHandle, channelId, channelStats, listing, transcript, comments,
    stats, gathered, youtubeData, features, sentiment, hooks, keywords,
    ollamaCalls, metrics, responses, completed>>

None == [type |-> "none"]

\* promises
Pending == [state |-> "pending"]
Fulfilled(v, upstream) == [state |-> "fulfilled", value |-> v, upstream |-> upstream]
Rejected(e, upstream) == [state |-> "rejected", error |-> e, upstream |-> upstream]

\* ---------------------------------------------------------- provider choices
Handles == {Undefined, JStr(""), JStr("@creator")}

Channel ==
  [subscriberCount |-> NumStr(1000), totalViews |-> NumStr(50000),
   totalVideos |-> NumStr(40)]

ListedTitles == {TitlePlain, TitleDollar}

\* the item of the search listing at position i: newer items come first
Listed(i, title) ==
  [videoId |-> i, title |-> title, description |-> DescPlain,
   publishedAt |-> 100 - 7 * i]

\* the listing that carries the titles f[1], f[2], ...
ListingOf(f) == [i \in DOMAIN f |-> Listed(i, f[i])]

\* the captions of the video listed at position i
TranscriptReplies(i) ==
  {[ok |-> TRUE, text |-> "spoken words " \o ToString(i)], [ok |-> FALSE]}
\* the provider holds i + 2 top comments for the video listed at position i
CommentReplies(i) == {[ok |-> TRUE, items |-> CommentList(i + 2)], [ok |-> FALSE]}
\* the video listed at position i has been viewed 100 * i times
StatsReplies(i) ==
  {[ok |-> TRUE, items |-> <<[viewCount |-> NumStr(100 * i), likeCount |-> NumStr(10),
                              commentCount |-> NumStr(4)]>>],
   [ok |-> TRUE, items |-> <<>>],
   [ok |-> FALSE]}

\* ------------------------------------------------------------ RawDataCollector
getTranscript(reply) ==
  IF reply.ok THEN Fulfilled(JStr(reply.text), "ok") ELSE Fulfilled(JNull, "failed")

getTopComments(reply) ==
  IF reply.ok THEN Fulfilled(reply.items, "ok") ELSE Fulfilled(<<>>, "failed")

\* the fault of a statistics fetch absorbed the way the other two fetches absorb theirs
getVideoStats_absorbed(reply) ==
  IF reply.ok /\ Len(reply.items) > 0 THEN Fulfilled(reply.items[1], "ok")
  ELSE Fulfilled([viewCount |-> Undefined, likeCount |-> Undefined,
                  commentCount |-> Undefined], "failed")

getVideoStats(reply) ==
  IF reply.ok /\ Len(reply.items) > 0 THEN Fulfilled(reply.items[1], "ok")
  ELSE Rejected("Error fetching video stats", "failed")

\* { ...video, transcript, comments, stats }
videoRecord(video, t, c, s) ==
  [videoId |-> video.videoId, title |-> video.title,
   description |-> video.description, publishedAt |-> video.publishedAt,
   transcript |-> t, comments |-> c, stats |-> s]

\* the reduction started at the second video
countComments_skipFirst(videoData) ==
  sumOf([i \in 1..(Len(videoData) - 1) |-> Len(videoData[i + 1].comments)])

\* videoData.reduce((sum, v) => sum + v.comments.length, 0)
countComments(videoData) == sumOf([i \in 1..Len(videoData) |-> Len(videoData[i].comments)])

dataset(id, handle, chStats, videoData) ==
  [channelId |-> id, channelHandle |-> handle, channelStats |-> chStats,
   videos |-> videoData,
   totalVideosAnalyzed |-> Len(videoData),
   totalComments |-> countComments(videoData)]

Failure(msg) == [status |-> 500, success |-> FALSE, error |-> msg]
Success(data) == [status |-> 200, success |-> TRUE, data |-> data]

\* the catch of gatherChannelIntelligence rethrows, the catch of the handler answers
gatherFails(msg) ==
  /\ gathered' = [ok |-> FALSE, error |-> msg]
  /\ responses' = Append(responses, Failure(msg))
  /\ pc' = "done"

Init ==
  /\ pc = "idle"
  /\ channelHandle = None /\ channelId = None /\ channelStats = None
  /\ listing = <<>> /\ transcript = <<>> /\ comments = <<>> /\ stats = <<>>
  /\ gathered = None /\ youtubeData = None
  /\ features = None /\ sentiment = None /\ hooks = None /\ keywords = None
  /\ ollamaCalls = <<>>
  /\ metrics = None
  /\ responses = <<>>
  /\ completed = <<>>
  /\ arg = None /\ ret = None

\* the 400 answer without its return: the handler goes on to gather
Analyze_noReturn ==
  /\ pc = "idle"
  /\ \E h \in Handles :
       /\ channelHandle' = h
       /\ pc' = "getChannelId"
       /\ IF h = Undefined \/ h = JStr("")
          THEN responses' = Append(responses,
                              [status |-> 400, error |-> "Channel handle is required"])
          ELSE UNCHANGED responses
  /\ UNCHANGED <<channelId, channelStats, listing, transcript, comments, stats,
                 gathered, youtubeData, features, sentiment, hooks, keywords,
                 ollamaCalls, metrics, completed, arg, ret>>

\* app.post('/api/analyze'): the request arrives
Analyze ==
  /\ pc = "idle"
  /\ \E h \in Handles :
       /\ channelHandle' = h
       /\ IF h = Undefined \/ h = JStr("")
          THEN /\ responses' = Append(responses,
                                 [status |-> 400, error |-> "Channel handle is required"])
               /\ pc' = "done"
          ELSE /\ pc' = "getChannelId"
               /\ UNCHANGED responses
  /\ UNCHANGED <<channelId, channelStats, listing, transcript, comments, stats,
                 gathered, youtubeData, features, sentiment, hooks, keywords,
                 ollamaCalls, metrics, completed, arg, ret>>

GetChannelId ==
  /\ pc = "getChannelId"
  /\ \E reply \in {[ok |-> TRUE, items |-> <<JStr("UC1")>>], [ok |-> TRUE, items |-> <<>>],
                   [ok |-> FALSE]} :
       IF reply.ok /\ Len(reply.items) > 0
       THEN /\ channelId' = reply.items[1]
            /\ pc' = "getChannelStats"
            /\ UNCHANGED <<gathered, responses>>
       ELSE /\ gatherFails("Error finding channel")
            /\ UNCHANGED channelId
  /\ UNCHANGED <<channelHandle, channelStats, listing, transcript, comments, stats,
                 youtubeData, features, sentiment, hooks, keywords, ollamaCalls,
                 metrics, completed, arg, ret>>

GetChannelStats ==
  /\ pc = "getChannelStats"
  /\ \E reply \in {[ok |-> TRUE, items |-> <<Channel>>], [ok |-> TRUE, items |-> <<>>],
                   [ok |-> FALSE]} :
       IF reply.ok /\ Len(reply.items) > 0
       THEN /\ channelStats' = reply.items[1]
            /\ pc' = "getLatestVideos"
            /\ UNCHANGED <<gathered, responses>>
       ELSE /\ gatherFails("Error fetching channel stats")
            /\ UNCHANGED channelStats
  /\ UNCHANGED <<channelHandle, channelId, listing, transcript, comments, stats,
                 youtubeData, features, sentiment, hooks, keywords, ollamaCalls,
                 metrics, completed, arg, ret>>

\* the listing resolves and every per-video fetch is started; an empty
\* listing makes Promise.all([]) resolve at once
GetLatestVideos ==
  /\ pc = "getLatestVideos"
  /\ \/ \E n \in 0..MaxVideos : \E f \in [1..n -> ListedTitles] :
        LET l == ListingOf(f) IN
          /\ listing' = l
          /\ transcript' = [i \in 1..Len(l) |-> Pending]
          /\ comments' = [i \in 1..Len(l) |-> Pending]
          /\ stats' = [i \in 1..Len(l) |-> Pending]
          /\ IF Len(l) = 0
             THEN /\ youtubeData' = dataset(channelId, channelHandle, channelStats, <<>>)
                  /\ gathered' = [ok |-> TRUE]
                  /\ pc' = "features"
             ELSE /\ pc' = "fetching"
                  /\ UNCHANGED <<youtubeData, gathered>>
          /\ UNCHANGED responses
     \/ /\ gatherFails("Error fetching videos")
        /\ UNCHANGED <<listing, transcript, comments, stats, youtubeData>>
  /\ UNCHANGED <<channelHandle, channelId, channelStats, features, sentiment, hooks,
                 keywords, ollamaCalls, metrics, completed, arg, ret>>

\* One per-video promise settles.  Promise.all rejects on the first rejection
\* and resolves, in listing order, once every promise is fulfilled; what
\* settles after the collection has failed changes nothing.
rejectedIn(promises) == {i \in 1..Len(promises) : promises[i].state = "rejected"}

\* the inner Promise.all of video i has resolved: its three fetches are fulfilled
resolvedIn(t2, c2, s2) ==
  {i \in 1..Len(listing) : /\ t2[i].state = "fulfilled"
                           /\ c2[i].state = "fulfilled"
                           /\ s2[i].state = "fulfilled"}

\* the videos in the order in which their records became available
completion(t2, c2, s2) ==
  LET new == resolvedIn(t2, c2, s2) \ {completed[k] : k \in 1..Len(completed)}
  IN IF new = {} THEN completed ELSE Append(completed, CHOOSE i \in new : TRUE)

\* the records gathered in the order in which the videos completed
promiseAll_completionOrder(t2, c2, s2) ==
  LET order == completion(t2, c2, s2)
  IN [k \in 1..Len(order) |->
        videoRecord(listing[order[k]], t2[order[k]].value, c2[order[k]].value,
                    s2[order[k]].value)]

\* the value the outer Promise.all resolves to: the record of every video, at
\* the position of its video in the mapped array
promiseAll(t2, c2, s2) ==
  [i \in 1..Len(listing) |->
     videoRecord(listing[i], t2[i].value, c2[i].value, s2[i].value)]

settle(t2, c2, s2) ==
  /\ transcript' = t2 /\ comments' = c2 /\ stats' = s2
  /\ completed' = IF pc = "fetching" THEN completion(t2, c2, s2) ELSE completed
  /\ IF pc # "fetching"
     THEN UNCHANGED <<pc, gathered, youtubeData, responses>>
     ELSE IF rejectedIn(t2 \o c2 \o s2) # {}
     THEN /\ gatherFails((t2 \o c2 \o s2)[CHOOSE i \in rejectedIn(t2 \o c2 \o s2) : TRUE].error)
          /\ UNCHANGED youtubeData
     ELSE IF resolvedIn(t2, c2, s2) = 1..Len(listing)
     THEN /\ youtubeData' =
               dataset(channelId, channelHandle, channelStats, promiseAll(t2, c2, s2))
          /\ gathered' = [ok |-> TRUE]
          /\ pc' = "features"
          /\ UNCHANGED responses
     ELSE UNCHANGED <<pc, gathered, youtubeData, responses>>

TranscriptSettles(i) ==
  /\ transcript[i] = Pending
  /\ \E reply \in TranscriptReplies(i) :
       settle([transcript EXCEPT ![i] = getTranscript(reply)], comments, stats)

CommentsSettle(i) ==
  /\ comments[i] = Pending
  /\ \E reply \in CommentReplies(i) :
       settle(transcript, [comments EXCEPT ![i] = getTopComments(reply)], stats)

StatsSettle(i) ==
  /\ stats[i] = Pending
  /\ \E reply \in StatsReplies(i) :
       settle(transcript, comments, [stats EXCEPT ![i] = getVideoStats(reply)])

Fetch ==
  /\ \E i \in 1..Len(listing) :
       TranscriptSettles(i) \/ CommentsSettle(i) \/ StatsSettle(i)
  /\ UNCHANGED <<channelHandle, channelId, channelStats, listing, features,
                 sentiment, hooks, keywords, ollamaCalls, metrics, arg, ret>>

\* ------------------------------------------------------ IntelligenceAssembler
called(op, a) == IF a.calls > 0 THEN Append(ollamaCalls, op) ELSE ollamaCalls

transcriptsOf(data) == [i \in 1..Len(data.videos) |-> data.videos[i].transcript]
allCommentsOf(data) == flat([i \in 1..Len(data.videos) |-> data.videos[i].comments])

StageFeatures ==
  /\ pc = "features"
  /\ \E outcome \in OllamaOutcomes :
       LET a == analyzeFeatures(transcriptsOf(youtubeData), youtubeData.videos, outcome)
       IN /\ features' = a.result
          /\ ollamaCalls' = called("analyzeFeatures", a)
  /\ pc' = "sentiment"
  \* the gather has returned: nothing of its callbacks is left
  /\ completed' = <<>>
  /\ UNCHANGED <<channelHandle, channelId, channelStats, listing, transcript,
                 comments, stats, gathered, youtubeData, sentiment, hooks, keywords,
                 metrics, responses, arg, ret>>

StageSentiment ==
  /\ pc = "sentiment"
  /\ \E outcome \in OllamaOutcomes :
       LET a == analyzeSentiment(allCommentsOf(youtubeData), outcome)
       IN /\ sentiment' = a.result
          /\ ollamaCalls' = called("analyzeSentiment", a)
  /\ pc' = "hooks"
  /\ UNCHANGED <<channelHandle, channelId, channelStats, listing, transcript,
                 comments, stats, gathered, youtubeData, features, hooks, keywords,
                 metrics, responses, completed, arg, ret>>

StageHooks ==
  /\ pc = "hooks"
  /\ \E outcome \in OllamaOutcomes :
       LET a == analyzeHooks(youtubeData.videos, outcome)
       IN /\ hooks' = a.result
          /\ ollamaCalls' = called("analyzeHooks", a)
  /\ pc' = "keywords"
  /\ UNCHANGED <<channelHandle, channelId, channelStats, listing, transcript,
                 comments, stats, gathered, youtubeData, features, sentiment,
                 keywords, metrics, responses, completed, arg, ret>>

StageKeywords ==
  /\ pc = "keywords"
  /\ keywords' = extractKeywords(transcriptsOf(youtubeData), youtubeData.videos)
  /\ pc' = "respond"
  /\ UNCHANGED <<channelHandle, channelId, channelStats, listing, transcript,
                 comments, stats, gathered, youtubeData, features, sentiment, hooks,
                 ollamaCalls, metrics, responses, completed, arg, ret>>

\* generateIntelligence has returned: metrics, then res.json, or the catch
Respond ==
  /\ pc = "respond"
  /\ LET m == calculateEnhancedMetrics(youtubeData) IN
       /\ metrics' = m
       /\ responses' =
            Append(responses,
              IF m.threw THEN Failure(m.error)
              ELSE Success([channelHandle |-> youtubeData.channelHandle,
                            features |-> features, sentiment |-> sentiment,
                            hooks |-> hooks, keywords |-> keywords,
                            metadata |->
                              [videosAnalyzed |-> youtubeData.totalVideosAnalyzed,
                               commentsAnalyzed |-> youtubeData.totalComments],
                            metrics |-> m.value,
                            channelInfo |-> youtubeData.channelStats,
                            videoBreakdown |-> getVideoBreakdown(youtubeData.videos)]))
  /\ pc' = "done"
  /\ UNCHANGED <<channelHandle, channelId, channelStats, listing, transcript,
                 comments, stats, gathered, youtubeData, features, sentiment, hooks,
                 keywords, ollamaCalls, completed, arg, ret>>

Next ==
  \/ Analyze
  \/ GetChannelId
  \/ GetChannelStats
  \/ GetLatestVideos
  \/ Fetch
  \/ StageFeatures
  \/ StageSentiment
  \/ StageHooks
  \/ StageKeywords
  \/ Respond

Spec == Init /\ [][Next]_vars

\* =============================================== the analyzers on their own
idleRequest ==
  /\ pc = "idle"
  /\ channelHandle = None /\ channelId = None /\ channelStats = None
  /\ listing = <<>> /\ transcript = <<>> /\ comments = <<>> /\ stats = <<>>
  /\ gathered = None /\ youtubeData = None
  /\ features = None /\ sentiment = None /\ hooks = None /\ keywords = None
  /\ ollamaCalls = <<>>
  /\ metrics = None
  /\ responses = <<>>
  /\ completed = <<>>

AnalyzerTitles == {TitleChallenge, TitleDollar, TitlePlain, TitleLong, TitleShort}

\* the video list that carries the titles f[1], f[2], ...
AnalyzerVideos(f) == [i \in DOMAIN f |-> [title |-> f[i], description |-> DescPlain]]

AnalyzerTranscripts == {<<>>, <<JNull, JStr("")>>, <<JStr("spoken words"), JNull>>}

\* one call of one analyzer: its arguments and what the capability will do
InitAI ==
  /\ idleRequest
  /\ ret = None
  /\ \/ \E n \in 0..MaxListed : \E f \in [1..n -> AnalyzerTitles] :
        \E t \in AnalyzerTranscripts : \E o \in OllamaOutcomes :
          arg = [op |-> "analyzeFeatures", transcripts |-> t,
                 videoData |-> AnalyzerVideos(f), outcome |-> o]
     \/ \E k \in 0..MaxComments : \E o \in OllamaOutcomes :
          arg = [op |-> "analyzeSentiment", comments |-> CommentList(k), outcome |-> o]
     \/ \E n \in 0..MaxListed : \E f \in [1..n -> AnalyzerTitles] :
        \E o \in OllamaOutcomes :
          arg = [op |-> "analyzeHooks", videoData |-> AnalyzerVideos(f), outcome |-> o]
     \/ \E n \in 0..MaxListed : \E f \in [1..n -> AnalyzerTitles] :
        \E t \in AnalyzerTranscripts :
          arg = [op |-> "extractKeywords", transcripts |-> t,
                 videoData |-> AnalyzerVideos(f)]

RunFeatures ==
  /\ ret = None /\ arg.op = "analyzeFeatures"
  /\ ret' = [op |-> "analyzeFeatures",
             out |-> analyzeFeatures(arg.transcripts, arg.videoData, arg.outcome)]
  /\ UNCHANGED <<requestVars, arg>>

RunSentiment ==
  /\ ret = None /\ arg.op = "analyzeSentiment"
  /\ ret' = [op |-> "analyzeSentiment",
             out |-> analyzeSentiment(arg.comments, arg.outcome)]
  /\ UNCHANGED <<requestVars, arg>>

RunHooks ==
  /\ ret = None /\ arg.op = "analyzeHooks"
  /\ ret' = [op |-> "analyzeHooks", out |-> analyzeHooks(arg.videoData, arg.outcome)]
  /\ UNCHANGED <<requestVars, arg>>

RunKeywords ==
  /\ ret = None /\ arg.op = "extractKeywords"
  /\ ret' = [op |-> "extractKeywords",
             out |-> Analysis(extractKeywords(arg.transcripts, arg.videoData), 0)]
  /\ UNCHANGED <<requestVars, arg>>

NextAI == RunFeatures \/ RunSentiment \/ RunHooks \/ RunKeywords

SpecAI == InitAI /\ [][NextAI]_vars

\* ========================================= the metrics functions on their own
MetricStats ==
  [viewCount : {Undefined, NumStr(0), NumStr(100), NumStr(300)},
   likeCount : {Undefined, NumStr(10)},
   commentCount : {NumStr(4)}]

\* publish days of a list, newest first: a video every week, or all at once
Schedules == {"weekly", "same day"}
publishDay(schedule, i) == IF schedule = "weekly" THEN 100 - 7 * i ELSE 100

\* a gathered video at position i of the list
MetricVideo(i, st, schedule) ==
  [videoId |-> i, title |-> <<"v", ToString(i)>>, description |-> DescEmpty,
   publishedAt |-> publishDay(schedule, i),
   transcript |-> IF i % 2 = 1 THEN JNull ELSE JStr("spoken words"),
   comments |-> CommentList(i), stats |-> st]

\* the gathered list that carries the statistics f[1], f[2], ...
MetricVideos(f, schedule) == [i \in DOMAIN f |-> MetricVideo(i, f[i], schedule)]

InitMetrics ==
  /\ idleRequest
  /\ ret = None
  /\ \E n \in 0..MaxMetricVideos : \E f \in [1..n -> MetricStats] :
     \E schedule \in Schedules :
       arg = dataset(JStr("UC1"), JStr("@creator"), Channel, MetricVideos(f, schedule))

RunMetrics ==
  /\ ret = None
  /\ ret' = [op |-> "calculateEnhancedMetrics", out |-> calculateEnhancedMetrics(arg)]
  /\ UNCHANGED <<requestVars, arg>>

RunBreakdown ==
  /\ ret = None
  /\ ret' = [op |-> "getVideoBreakdown", out |-> getVideoBreakdown(arg.videos)]
  /\ UNCHANGED <<requestVars, arg>>

NextMetrics == RunMetrics \/ RunBreakdown

SpecMetrics == InitMetrics /\ [][NextMetrics]_vars

\* ================================================================== properties
collectionFailed == gathered # None /\ ~gathered.ok
collectionReturned == gathered # None /\ gathered.ok
settled(i) == transcript[i] # Pending /\ comments[i] # Pending /\ stats[i] # Pending

\* C1: gatherChannelIntelligence returns a dataset exactly when the channel
\* lookup, the channel-stats fetch, the listing and the statistics fetch of
\* every listed video succeed.  One failed statistics fetch fails the
\* collection whatever else settles; a failed transcript fetch or comment
\* fetch never does, and leaves transcript = null, respectively an empty
\* comment list, in that video's record.
C1_DatasetIffEssentialFetches ==
  /\ collectionReturned =>
       /\ channelId # None /\ channelStats # None
       /\ Len(youtubeData.videos) = Len(listing)
       /\ \A i \in 1..Len(listing) :
            /\ settled(i)
            /\ stats[i].upstream = "ok"
            /\ transcript[i].upstream = "failed" =>
                 youtubeData.videos[i].transcript = JNull
            /\ comments[i].upstream = "failed" =>
                 youtubeData.videos[i].comments = <<>>
  /\ (\E i \in 1..Len(listing) : stats[i] # Pending /\ stats[i].upstream = "failed")
       => collectionFailed
  /\ collectionFailed =>
       \/ gathered.error = "Error finding channel" /\ channelId = None
       \/ gathered.error = "Error fetching channel stats" /\ channelStats = None
       \/ gathered.error = "Error fetching videos" /\ Len(listing) = 0
       \/ /\ gathered.error = "Error fetching video stats"
          /\ \E i \in 1..Len(listing) :
               stats[i] # Pending /\ stats[i].upstream = "failed"
  /\ ( /\ Len(listing) > 0
       /\ \A i \in 1..Len(listing) : settled(i) /\ stats[i].upstream = "ok" )
       => collectionReturned

\* a dataset came back although a transcript fetch and a comment fetch failed
C1_Witness ==
  /\ collectionReturned
  /\ \E i \in 1..Len(listing) : transcript[i].upstream = "failed"
  /\ \E i \in 1..Len(listing) : comments[i].upstream = "failed"
  /\ \E i \in 1..Len(listing) : comments[i].upstream = "ok"

\* C2: at most one response is ever sent and a finished request has sent
\* exactly one.  After a failed collection the response is the failure, and
\* no analyzer, no text-generation call and no metrics computation has run.
\* A success response carries the metrics, one breakdown entry per video and
\* the four report fields.
C2_OneResponseFatalAborts ==
  /\ Len(responses) <= 1
  /\ (pc = "done") <=> (Len(responses) = 1)
  /\ collectionFailed =>
       /\ pc = "done"
       /\ responses = <<Failure(gathered.error)>>
       /\ ollamaCalls = <<>>
       /\ features = None /\ sentiment = None /\ hooks = None /\ keywords = None
       /\ metrics = None
  /\ \A k \in 1..Len(responses) :
       responses[k].status = 200 =>
         /\ responses[k].success
         /\ collectionReturned
         /\ ~metrics.threw /\ responses[k].data.metrics = metrics.value
         /\ Len(responses[k].data.videoBreakdown) = Len(youtubeData.videos)
         /\ responses[k].data.features = features /\ features # None
         /\ responses[k].data.sentiment = sentiment /\ sentiment # None
         /\ responses[k].data.hooks = hooks /\ hooks # None
         /\ responses[k].data.keywords = keywords /\ keywords # None

\* the request ended in the failure of one video's statistics fetch
C2_Witness ==
  /\ pc = "done"
  /\ collectionFailed
  /\ gathered.error = "Error fetching video stats"
  /\ Len(listing) > 1

\* C3: a returned dataset counts its videos and its comments: totalVideosAnalyzed
\* is the number of videos and totalComments the number of (video, comment)
\* pairs, whichever comment fetches failed.
C3_TotalsMatchVideos ==
  youtubeData # None =>
    /\ youtubeData.totalVideosAnalyzed = Len(youtubeData.videos)
    /\ youtubeData.totalVideosAnalyzed = Len(listing)
    /\ youtubeData.totalComments =
         Cardinality(UNION {{<<i, j>> : j \in 1..Len(youtubeData.videos[i].comments)} :
                              i \in 1..Len(youtubeData.videos)})

\* a dataset of two videos, one with its comments and one whose fetch failed
C3_Witness ==
  /\ youtubeData # None
  /\ Len(youtubeData.videos) = 2
  /\ comments[1].upstream = "ok" /\ comments[2].upstream = "failed"
  /\ youtubeData.totalComments = 3

\* ------------------------------------------------ the shapes the prompts ask for
keysOf(v) == {v.members[i].key : i \in 1..Len(v.members)}
isString(v) == v.type = "string"
isObjectOf(v, keys) ==
  /\ v.type = "object"
  /\ keysOf(v) = keys
  /\ \A k \in keys : isString(Get(v, k))

featureShape(v) ==
  /\ v.type = "array"
  /\ \A i \in 1..Len(v.items) :
       isObjectOf(v.items[i], {"feature", "category", "confidence"})

sentimentShape(v) ==
  /\ v.type = "object"
  /\ keysOf(v) = {"complaints", "mostRequestedFeature"}
  /\ isString(Get(v, "mostRequestedFeature"))
  /\ Get(v, "complaints").type = "array"
  /\ \A i \in 1..Len(Get(v, "complaints").items) :
       isObjectOf(Get(v, "complaints").items[i], {"text", "frequency"})

hookShape(v) ==
  /\ v.type = "object"
  /\ keysOf(v) = {"primaryHook", "secondaryHooks", "strategy"}
  /\ isString(Get(v, "primaryHook")) /\ isString(Get(v, "strategy"))
  /\ Get(v, "secondaryHooks").type = "array"
  /\ \A i \in 1..Len(Get(v, "secondaryHooks").items) :
       isString(Get(v, "secondaryHooks").items[i])

\* how the model path of one analyzer failed on an outcome, if it did
failureOf(outcome, open, close, shape(_)) ==
  IF outcome.kind # "text" THEN "the call throws"
  ELSE LET m == matchLazy(outcome.text, open, close) IN
       IF ~m.found THEN "no JSON match"
       ELSE LET parsed == JSONparse(m.text) IN
            IF ~parsed.ok THEN "malformed JSON"
            ELSE IF ~shape(parsed.value) THEN "unexpected shape"
            ELSE "none"

ran(op) == ret # None /\ ret.op = op

\* C4: each model-backed analyzer returns its own fallback whenever its model
\* path fails: the call throws, the text holds no JSON match, the match is
\* malformed JSON, or the parsed value has not the expected shape.  When the
\* call throws for feature extraction with transcripts present, the result is
\* the title-keyword fallback: at most 5 entries, each of category "Detected".
C4_FallbackOnEveryFailure ==
  /\ (ran("analyzeFeatures") /\ ret.out.calls = 1
        /\ failureOf(arg.outcome, "[", "]", featureShape) # "none")
       => ret.out.result = extractFeaturesFromTitles(arg.videoData)
  /\ (ran("analyzeSentiment") /\ ret.out.calls = 1
        /\ failureOf(arg.outcome, "{", "}", sentimentShape) # "none")
       => ret.out.result = PositiveSentiment
  /\ (ran("analyzeHooks") /\ ret.out.calls = 1
        /\ failureOf(arg.outcome, "{", "}", hookShape) # "none")
       => ret.out.result = GenericHook
  /\ (ran("analyzeFeatures") /\ ret.out.calls = 1 /\ arg.outcome = Throws)
       => /\ Len(ret.out.result.items) <= 5
          /\ \A i \in 1..Len(ret.out.result.items) :
               Get(ret.out.result.items[i], "category") = JStr("Detected")

\* C5: sentiment-gap extraction over fewer than 5 comments returns the fixed
\* insufficient-data placeholder (3 items, "More data needed") and makes no
\* text-generation call.
C5_FewCommentsNoModelCall ==
  (ran("analyzeSentiment") /\ Len(arg.comments) < 5) =>
    /\ ret.out.calls = 0
    /\ ret.out.result = InsufficientData
    /\ Len(Get(ret.out.result, "complaints").items) = 3
    /\ Get(ret.out.result, "mostRequestedFeature") = JStr("More data needed")

\* four comments, and a capability that would have answered well
C5_Witness ==
  /\ ran("analyzeSentiment")
  /\ Len(arg.comments) = 4
  /\ arg.outcome = Completion(Good0)

\* C6: hook extraction over titles of which one holds "$" or, in any case,
\* "challenge" returns the fixed "Entertainment & Spectacle" result and makes
\* no text-generation call, whatever the capability would have done.
C6_SpectacleShortCircuit ==
  (ran("analyzeHooks")
     /\ \E i \in 1..Len(arg.videoData) :
          arg.videoData[i].title \in {TitleChallenge, TitleDollar}) =>
    /\ ret.out.calls = 0
    /\ ret.out.result = Spectacle
    /\ Get(ret.out.result, "primaryHook") = JStr("Entertainment & Spectacle")

\* an upper-case CHALLENGE behind an ordinary title, the capability answering well
C6_Witness ==
  /\ ran("analyzeHooks")
  /\ Len(arg.videoData) = 2
  /\ arg.videoData[1].title = TitlePlain
  /\ arg.videoData[2].title = TitleChallenge
  /\ arg.outcome = Completion(GoodHooks)

\* the well-formed objects of the sentiment shape inside a completion
shapedObjects(text) ==
  {p \in {<<i, j>> : i \in {x \in 1..Len(text) : text[x] = "{"},
                     j \in {x \in 1..Len(text) : text[x] = "}"}} :
     /\ p[1] < p[2]
     /\ JSONparse(SubSeq(text, p[1], p[2])).ok
     /\ sentimentShape(JSONparse(SubSeq(text, p[1], p[2])).value)}

\* C7: with at least 5 comments and a completion that contains a well-formed
\* object of the sentiment shape with k complaints, the result is that object:
\* its k complaints first, in order, then filler up to max(k, 3) entries.
C7_ParsedComplaintsKept ==
  (ran("analyzeSentiment") /\ Len(arg.comments) >= 5 /\ arg.outcome.kind = "text"
     /\ shapedObjects(arg.outcome.text) # {}) =>
    LET found == shapedObjects(arg.outcome.text)
        p == CHOOSE q \in found : \A r \in found : q[1] <= r[1]
        data == JSONparse(SubSeq(arg.outcome.text, p[1], p[2])).value
        sent == Get(data, "complaints").items
        k == Len(sent)
        got == Get(ret.out.result, "complaints")
    IN /\ ret.out.calls = 1
       /\ Get(ret.out.result, "mostRequestedFeature") = Get(data, "mostRequestedFeature")
       /\ got.type = "array"
       /\ Len(got.items) = (IF k > 3 THEN k ELSE 3)
       /\ SubSeq(got.items, 1, k) = sent
       /\ \A i \in (k + 1)..Len(got.items) : got.items[i] = Filler

\* C8: with zero videos the metrics computation fails with InsufficientData,
\* before any division by the video count, and the request ends in failure.
C8_ZeroVideosInsufficientData ==
  (metrics # None /\ Len(youtubeData.videos) = 0) =>
    /\ metrics.threw
    /\ metrics.error = "InsufficientData"
    /\ ~metrics.locals.avgViews.nan
    /\ responses = <<Failure(metrics.error)>>

\* C9: one video gives uploadFrequency = 0 and viewsTrend = 0, and neither
\* half average of the trend is ever taken over an empty half.
C9_SingleVideoTrendZero ==
  (ran("calculateEnhancedMetrics") /\ Len(arg.videos) >= 1) =>
    /\ ~ret.out.threw
    /\ ~recentAvgViews(arg.videos).nan
    /\ ~olderAvgViews(arg.videos).nan
    /\ Len(arg.videos) = 1 =>
         /\ ret.out.value.uploadFrequency = Num(0)
         /\ ret.out.value.viewsTrend = Num(0)

\* the view count a breakdown entry shows for a video
shownViews(v) == IF v.stats.viewCount = Undefined THEN 0 ELSE v.stats.viewCount.val

\* C10: the breakdown has one entry per video, in descending order of views,
\* and the entries of equal views stand in the order of their videos.
C10_BreakdownSortedStable ==
  ran("getVideoBreakdown") =>
    LET out == ret.out
        in == arg.videos
    IN /\ Len(out) = Len(in)
       /\ \A i, j \in 1..Len(out) : i < j => out[i].views >= out[j].views
       /\ \A w \in {shownViews(in[i]) : i \in 1..Len(in)} :
            LET entries == SelectSeq(out, LAMBDA e : e.views = w)
                videos == SelectSeq(in, LAMBDA v : shownViews(v) = w)
            IN /\ Len(entries) = Len(videos)
               /\ \A i \in 1..Len(entries) : entries[i].title = videos[i].title

\* two videos tie on views around one that outranks them both
C10_Witness ==
  /\ ran("getVideoBreakdown")
  /\ Len(arg.videos) = 3
  /\ shownViews(arg.videos[1]) = 100
  /\ shownViews(arg.videos[2]) = 300
  /\ shownViews(arg.videos[3]) = 100

\* C11: every entry of the breakdown carries an engagementRate that is a
\* finite number, equal to likes / views * 100 (two decimals) of the entry's
\* own likes and views fields, and equal to 0.00 when its views are 0.
C11_EngagementRateFinite ==
  ran("getVideoBreakdown") =>
    \A i \in 1..Len(ret.out) :
      LET e == ret.out[i]
      IN e.engagementRate =
           IF e.views > 0 THEN Num(roundDiv(e.likes * 10000, e.views)) ELSE Num(0)

\* what the provider holds for the video of identifier id
ownTranscripts(id) == {JNull, JStr("spoken words " \o ToString(id))}
ownComments(id) == {<<>>, CommentList(id + 2)}
ownViewCount(id) == NumStr(100 * id)

\* C12: whatever the order in which the per-video fetches complete, the
\* returned dataset lists the videos in the order of the provider's listing,
\* every record carries the transcript, comments and statistics of its own
\* videoId, and the recent and older halves of the trend computation are the
\* first floor(n/2) and the remaining videos of the listing.
C12_ListingOrderKept ==
  collectionReturned =>
    LET videos == youtubeData.videos
        n == Len(listing)
    IN /\ Len(videos) = n
       /\ \A i \in 1..n :
            /\ videos[i].videoId = listing[i].videoId
            /\ videos[i].title = listing[i].title
            /\ videos[i].publishedAt = listing[i].publishedAt
            /\ videos[i].transcript \in ownTranscripts(listing[i].videoId)
            /\ videos[i].comments \in ownComments(listing[i].videoId)
            /\ videos[i].stats.viewCount = ownViewCount(listing[i].videoId)
       /\ Len(recentVideos(videos)) = n \div 2
       /\ Len(olderVideos(videos)) = n - (n \div 2)
       /\ \A k \in 1..Len(recentVideos(videos)) :
            recentVideos(videos)[k].videoId = listing[k].videoId
       /\ \A k \in 1..Len(olderVideos(videos)) :
            olderVideos(videos)[k].videoId = listing[(n \div 2) + k].videoId

\* the dataset was returned after the video listed last completed first
C12_Witness ==
  /\ collectionReturned
  /\ Len(listing) = 2
  /\ completed = <<2, 1>>
  /\ youtubeData.videos[1].transcript # youtubeData.videos[2].transcript
====
